---------------------------- MODULE Spec2Model ----------------------------
(***************************************************************************)
(* A model of the two command-line processors of the repository:           *)
(*   server/simple-pdf-processor.py   (SimplePDFProcessor, main)           *)
(*   server/langchain-pdf-rag.py      (AucklandCouncilPDFProcessor, main)  *)
(*                                                                         *)
(* One run of the model is one Python process.  `script` says which file   *)
(* the process runs.  Text is a sequence of one-character strings; the     *)
(* external collaborators (requests.get, PyPDFLoader.load, llm.invoke)     *)
(* answer nondeterministically with every outcome they can produce.        *)
(***************************************************************************)
EXTENDS Integers, Sequences, FiniteSets, TLC

(***************************************************************************)
(* Bounds of the model.                                                    *)
(***************************************************************************)
\* longest short page the decoder returns
MaxSmall == 2
\* page lengths TruncLimit - MaxSlack .. TruncLimit + MaxSlack are decoded
MaxSlack == 1
\* most words of the question on the command line
MaxWords == 2
\* most calls one thread makes on the shared processor
MaxCalls == 2
\* most runs of the command that one caller observes
MaxRuns == 2

(***************************************************************************)
(* Program constants.                                                      *)
(***************************************************************************)
\* pdf_text[:8000]
TruncLimit == 8000

(***************************************************************************)
(* Python values.                                                          *)
(***************************************************************************)
\* Python's None where a text is expected; no text holds this element
None == <<"None">>

\* the characters of the modelled texts
NL == "\n"
SP == " "

\* Python truthiness of a str / list / None
Truthy(x) == x # None /\ x # <<>>

\* sep.join(parts): parts is a sequence of texts
RECURSIVE Join(_, _)
Join(sep, parts) ==
  IF parts = <<>> THEN <<>>
  ELSE IF Len(parts) = 1 THEN parts[1]
  ELSE parts[1] \o sep \o Join(sep, Tail(parts))

\* s[:n] for n >= 0
Prefix(s, n) == SubSeq(s, 1, IF Len(s) < n THEN Len(s) ELSE n)

\* the slice taken one character too long
Truncate_off_by_one(pdf_text) == Prefix(pdf_text, TruncLimit + 1)

\* pdf_text[:8000]
Truncate(pdf_text) == Prefix(pdf_text, TruncLimit)

(***************************************************************************)
(* The zone registries.                                                    *)
(***************************************************************************)
UP == "https://unitaryplan.aucklandcouncil.govt.nz/images/Auckland%20Unitary%20Plan%20Operative/"
HZ == "Chapter%20H%20Zones/"
DO == "Chapter%20D%20Overlays/3.%20Built%20Heritage%20and%20Character/"
IZ == "Chapter%20I%20Zones/"

\* a URL is the triple of its three path parts
Simple_get_zone_pdf_urls ==
  [ H1  |-> <<UP, HZ, "H1%20Residential%20-%20Large%20Lot%20Zone.pdf">>,
    H2  |-> <<UP, HZ, "H2%20Residential%20-%20Rural%20and%20Coastal%20Settlement%20Zone.pdf">>,
    H3  |-> <<UP, HZ, "H3%20Residential%20-%20Single%20House%20Zone.pdf">>,
    H4  |-> <<UP, HZ, "H4%20Residential%20-%20Mixed%20Housing%20Suburban%20Zone.pdf">>,
    H5  |-> <<UP, HZ, "H5%20Residential%20-%20Mixed%20Housing%20Urban%20Zone.pdf">>,
    H6  |-> <<UP, HZ, "H6%20Residential%20-%20Terrace%20Housing%20and%20Apartment%20Buildings%20Zone.pdf">>,
    H7  |-> <<UP, HZ, "H7%20Open%20Space%20zones.pdf">>,
    H8  |-> <<UP, HZ, "H8%20Business%20-%20City%20Centre%20Zone.pdf">>,
    H9  |-> <<UP, HZ, "H9%20Business%20-%20Metropolitan%20Centre%20Zone.pdf">>,
    H10 |-> <<UP, HZ, "H10%20Business%20-%20Town%20Centre%20Zone.pdf">>,
    H11 |-> <<UP, HZ, "H11%20Business%20-%20Local%20Centre%20Zone.pdf">>,
    H12 |-> <<UP, HZ, "H12%20Business%20-%20Neighbourhood%20Centre%20Zone.pdf">>,
    H13 |-> <<UP, HZ, "H13%20Business%20-%20Mixed%20Use%20Zone.pdf">>,
    H14 |-> <<UP, HZ, "H14%20Business%20-%20General%20Business%20Zone.pdf">>,
    H15 |-> <<UP, HZ, "H15%20Business%20-%20Business%20Park%20Zone.pdf">>,
    H16 |-> <<UP, HZ, "H16%20Business%20-%20Heavy%20Industry%20Zone.pdf">>,
    H17 |-> <<UP, HZ, "H17%20Business%20-%20Light%20Industry%20Zone.pdf">>,
    H18 |-> <<UP, HZ, "H18%20Future%20Urban%20Zone.pdf">>,
    H19 |-> <<UP, HZ, "H19%20Rural%20zones.pdf">>,
    D17 |-> <<UP, DO, "D17%20Historic%20Heritage%20Overlay.pdf">>,
    D18 |-> <<UP, DO, "D18%20Special%20Character%20Areas%20Overlay%20-%20Residential%20and%20Business.pdf">>,
    D19 |-> <<UP, DO, "D19%20Auckland%20War%20Memorial%20Museum%20Viewshaft%20Overlay.pdf">>,
    D20A |-> <<UP, DO, "D20A%20Stockade%20Hill%20Viewshaft%20Overlay.pdf">> ]

Rag_get_zone_pdf_urls ==
  [ H3 |-> <<UP, HZ, "H3%20Residential%20-%20Single%20House%20Zone.pdf">>,
    H4 |-> <<UP, HZ, "H4%20Residential%20-%20Mixed%20Housing%20Suburban%20Zone.pdf">>,
    H5 |-> <<UP, HZ, "H5%20Residential%20-%20Mixed%20Housing%20Urban%20Zone.pdf">>,
    H6 |-> <<UP, HZ, "H6%20Residential%20-%20Terrace%20Housing%20and%20Apartment%20Buildings%20Zone.pdf">>,
    H7 |-> <<UP, HZ, "H7%20Residential%20-%20Apartment%20Buildings%20Zone.pdf">>,
    H8 |-> <<UP, HZ, "H8%20Residential%20-%20Large%20Lot%20Zone.pdf">>,
    H9 |-> <<UP, HZ, "H9%20Residential%20-%20Rural%20and%20Coastal%20Settlement%20Zone.pdf">>,
    I1 |-> <<UP, IZ, "I1%20Business%20-%20City%20Centre%20Zone.pdf">>,
    I2 |-> <<UP, IZ, "I2%20Business%20-%20Metropolitan%20Centre%20Zone.pdf">>,
    I3 |-> <<UP, IZ, "I3%20Business%20-%20Town%20Centre%20Zone.pdf">>,
    I4 |-> <<UP, IZ, "I4%20Business%20-%20Local%20Centre%20Zone.pdf">> ]

\* line 103 looking the code up in the union of the two registries
Simple_zone_known_either(zc) ==
  zc \in DOMAIN Simple_get_zone_pdf_urls \cup DOMAIN Rag_get_zone_pdf_urls

\* `zone_code not in zone_urls` (simple-pdf-processor.py line 103)
Simple_zone_known(zc) == zc \in DOMAIN Simple_get_zone_pdf_urls

\* `zone_code not in zone_urls` (langchain-pdf-rag.py line 116)
Rag_zone_known(zc) == zc \in DOMAIN Rag_get_zone_pdf_urls


(***************************************************************************)
(* The inputs of a run and the answers of the external collaborators.      *)
(***************************************************************************)
\* zone codes given on the command line: in both registries, in one, in none
ZoneInputs == {"H3", "D18", "I1", "ZZZ"}

\* the words of the question (sys.argv[2:])
Words == {<<"h", "?">>}

RECURSIVE SeqsUpTo(_, _)
SeqsUpTo(S, n) ==
  IF n = 0 THEN {<<>>}
  ELSE LET shorter == SeqsUpTo(S, n - 1)
       IN  shorter \cup {Append(s, x) : s \in shorter, x \in S}

\* sys.argv[1:]
ArgvInputs ==
  {<<>>} \cup {<<zc>> \o ws : zc \in ZoneInputs, ws \in SeqsUpTo(Words, MaxWords)}

\* os.environ.get("OPENAI_API_KEY"): unset, empty, set
KeyUnset == "<unset>"
KeyInputs == {KeyUnset, "", "sk"}

\* which import statement of the module's try block raised ImportError
\* (0: none; simple-pdf-processor.py has two imports, langchain-pdf-rag.py three)
ImportFailInputs(s) == IF s = "simple" THEN 0..2 ELSE 0..3

\* the module-level names the script binds (lines 5-20 of either file)
ModuleNames(s, fail) ==
  {"requests", "tempfile", "os", "json", "sys", "re", "LANGCHAIN_AVAILABLE"}
    \cup (IF fail # 1 THEN {"PyPDFLoader"} ELSE {})
    \cup (IF fail \notin {1, 2} THEN {"OpenAI"} ELSE {})
    \cup (IF s # "simple" /\ fail = 0 THEN {"PyPDF2"} ELSE {})

\* LANGCHAIN_AVAILABLE after the module's try/except ImportError
LANGCHAIN_AVAILABLE(fail) == fail = 0

\* langchain-pdf-rag.py lines 18-19: the ImportError handler prints
ImportOutput(s, fail) ==
  IF s # "simple" /\ fail # 0
  THEN <<[kind |-> "text", text |-> "LangChain dependencies not available"]>>
  ELSE <<>>

\* outcomes of requests.get(url, timeout=30) followed by raise_for_status()
FetchOutcomes == {"ok", "transport", "timeout", "http_status"}

\* a page of n characters
Page(n, k) == [i \in 1..n |-> IF (i + k) % 2 = 0 THEN "a" ELSE "b"]

\* what PyPDFLoader(...).load() returns: the page_content of each page
DecodedDocs ==
  {<<>>}
    \cup {<<Page(n, 0)>> : n \in 0..MaxSmall}
    \cup {<<Page(n, 0), Page(m, 1)>> : n, m \in 0..MaxSmall}
    \cup {<<Page(TruncLimit + d, 0)>> : d \in (0 - MaxSlack)..MaxSlack}
    \cup {<<Page(TruncLimit - 1, 0), Page(MaxSlack, 1)>>}

\* what llm.invoke(prompt) returns
Answers == {<<>>, <<"8", SP, "m">>}

(***************************************************************************)
(* The state of a run.                                                     *)
(***************************************************************************)
VARIABLES
  script,       \* "simple" | "rag": the file run as __main__; "rag_api": the
                \* class of langchain-pdf-rag.py used by concurrent callers
  import_fail,  \* the import that raised ImportError, 0 for none
  argv,         \* sys.argv[1:]
  environ_key,  \* os.environ.get("OPENAI_API_KEY")
  pc,           \* the statement main (and the simple query) is at
  zone_code,    \* main's zone_code
  query,        \* main's query
  processor,    \* the processor object: its attributes
  tmp_file_path, \* simple extract_pdf_text: the staged file, 0 when unbound
  documents,    \* simple extract_pdf_text: loader.load()'s pages
  full_text,    \* simple extract_pdf_text: what it returned to line 107
  pdf_text,     \* simple query_zone_with_ai: pdf_text
  fetched,      \* how the simple query's requests.get ended, "" before it
  answer,       \* what llm.invoke returned, None before and when it raised
  failure,      \* the component whose failure ended the query, "" for none
  observed,     \* <<failure, error>> of the failed responses printed so far
  runs,         \* the runs of the command so far, this one included
  prompt,       \* the prompts passed to llm.invoke, in order
  result,       \* main's result
  stdout,       \* what was printed, in order
  exit_status,  \* -1 while running, else the process's exit status
  uncaught,     \* the exception that ended the process, "" for none
  th,           \* langchain-pdf-rag.py: the calls in progress, per thread
  n_get,        \* the URLs of the requests.get calls, in order
  n_load,       \* number of loader.load() calls
  n_split,      \* number of split_documents calls
  n_invoke,     \* number of completion calls
  tmp_files,    \* the temporary files that exist
  n_tmp,        \* temporary files created so far
  stages        \* the stages of the pipeline entered, in order

vars == <<script, import_fail, argv, environ_key, pc, zone_code, query, processor,
          tmp_file_path, documents, full_text, pdf_text, fetched, answer, failure,
          observed, runs, prompt, result, stdout, exit_status, uncaught, th, n_get, n_load, n_split, n_invoke, tmp_files, n_tmp, stages>>

inputs == <<script, import_fail, argv, environ_key>>
simple_locals == <<tmp_file_path, documents, full_text, pdf_text, fetched, answer,
                   failure, observed, runs>>
counters == <<n_get, n_load, n_split, n_invoke, tmp_files, n_tmp>>

\* an object with no attribute set
NoObject == [attrs |-> {}, available |-> FALSE, llm |-> FALSE, vector_stores |-> {}]

\* a fixed message, as a text of one element
Message(m) == <<m>>

\* print(...): a line of text, or a JSON document
TextLine(t) == [kind |-> "text", text |-> t]
JsonLine(obj) == [kind |-> "json", obj |-> obj]

\* the number of requests.get calls of the process
TotalGets == Len(n_get)

\* the number of requests.get calls for url
GetsOf(url) == Cardinality({i \in 1..Len(n_get) : n_get[i] = url})

Threads == 1..2

\* a thread's call in progress: the statement it is at, the labels its
\* callees return to, the arguments and locals of the methods on its stack,
\* and what the outermost call returned or raised
IdleThread ==
  [pc |-> "idle", op |-> "", stack |-> <<>>, calls |-> 0,
   zone_code |-> "", query |-> None, pdf_url |-> <<>>,
   tmp_file_path |-> 0, documents |-> <<>>, chunks |-> <<>>, ok |-> FALSE,
   ret_text |-> None, ret_ok |-> FALSE, ret_chunks |-> <<>>, raised |-> "",
   fetched |-> "", failure |-> "", gets |-> 0, loads |-> 0, invokes |-> 0]

\* the first state of a process
Init ==
  /\ script \in {"simple", "rag", "rag_api"}
  /\ runs = 1
  /\ observed = {}
  /\ import_fail = 0
  /\ argv = <<>>
  /\ environ_key = KeyUnset
  /\ pc = "launch"
  /\ zone_code = "" /\ query = None
  /\ processor = NoObject
  /\ tmp_file_path = 0 /\ documents = <<>> /\ full_text = None /\ pdf_text = None
  /\ fetched = "" /\ answer = None /\ failure = ""
  /\ prompt = <<>>
  /\ result = None
  /\ stdout = <<>>
  /\ exit_status = -1 /\ uncaught = ""
  /\ th = [t \in Threads |-> IdleThread]
  /\ n_get = <<>>
  /\ n_load = 0 /\ n_split = 0 /\ n_invoke = 0
  /\ tmp_files = {} /\ n_tmp = 0
  /\ stages = <<>>

\* the last line printed, when it is a JSON document
Responded == stdout # <<>> /\ stdout[Len(stdout)].kind = "json"
Response == stdout[Len(stdout)].obj

\* The process starts: the command line and the environment it is given, and
\* the module's imports (lines 5-20 of either file)
Launch ==
  /\ pc = "launch"
  /\ import_fail' \in ImportFailInputs(script)
  /\ argv' \in (IF script = "rag_api" THEN {<<>>} ELSE ArgvInputs)
  /\ environ_key' \in KeyInputs
  /\ stdout' = ImportOutput(script, import_fail')
  /\ pc' = (IF script = "rag_api" THEN "m207" ELSE "m144")
  /\ UNCHANGED <<script, zone_code, query, processor, simple_locals, prompt, result,
                 exit_status, uncaught, th, counters, stages>>

\* sys.exit(code) after printing line
Exit(line, code) ==
  /\ stdout' = Append(stdout, line)
  /\ exit_status' = code
  /\ pc' = "exit"

\* a failed response of kind k is seen by the command's caller
Observe(k, obj) == observed' = observed \cup {<<k, obj.error>>}

(***************************************************************************)
(* simple-pdf-processor.py: main, lines 142-166.                           *)
(***************************************************************************)
\* lines 144-149: the usage check and the arguments
SimpleArgs ==
  /\ script = "simple" /\ pc = "m144"
  /\ IF Len(argv) < 2
     THEN /\ Exit(TextLine("usage"), 1)
          /\ UNCHANGED <<zone_code, query>>
     ELSE /\ zone_code' = argv[1]
          /\ query' = Join(<<SP>>, Tail(argv))
          /\ pc' = "m151"
          /\ UNCHANGED <<stdout, exit_status>>
  /\ UNCHANGED <<inputs, processor, simple_locals, prompt, result, uncaught, th,
                 counters, stages>>

\* the JSON object of lines 153-156 and 162-165
ErrorOnly(msg) == [success |-> FALSE, error |-> Message(msg)]

\* lines 151-157: the credential check
SimpleKey ==
  /\ script = "simple" /\ pc = "m151"
  /\ IF environ_key \in {KeyUnset, ""}
     THEN /\ Exit(JsonLine(ErrorOnly("OPENAI_API_KEY environment variable not set")), 1)
          /\ failure' = "ConfigurationError"
          /\ Observe("ConfigurationError",
                     ErrorOnly("OPENAI_API_KEY environment variable not set"))
     ELSE pc' = "m159" /\ UNCHANGED <<stdout, exit_status, failure, observed>>
  /\ UNCHANGED <<inputs, zone_code, query, processor, tmp_file_path, documents,
                 full_text, pdf_text, fetched, answer, runs, prompt, result, uncaught, th,
                 counters, stages>>

\* SimplePDFProcessor.__init__, lines 25-35; ctor_ok: OpenAI(...) does not raise
Simple_init(available, openai_api_key, ctor_ok) ==
  [attrs |-> {"available", "llm"},
   available |-> available,
   llm |-> available /\ openai_api_key \notin {KeyUnset, ""} /\ ctor_ok,
   vector_stores |-> {}]

\* line 159
SimpleConstruct ==
  /\ script = "simple" /\ pc = "m159"
  /\ \E ctor_ok \in BOOLEAN :
       /\ processor' = Simple_init(LANGCHAIN_AVAILABLE(import_fail), environ_key, ctor_ok)
       /\ stdout' = IF LANGCHAIN_AVAILABLE(import_fail) /\ ~ctor_ok
                    THEN Append(stdout, TextLine("Error initializing OpenAI"))
                    ELSE stdout
  /\ pc' = "m161"
  /\ UNCHANGED <<inputs, zone_code, query, simple_locals, prompt, result, exit_status,
                 uncaught, th, counters, stages>>

\* lines 161-166
SimpleCheckAvailable ==
  /\ script = "simple" /\ pc = "m161"
  /\ IF ~processor.available
     THEN /\ Exit(JsonLine(ErrorOnly("LangChain dependencies not available")), 1)
          /\ failure' = "ConfigurationError"
          /\ Observe("ConfigurationError", ErrorOnly("LangChain dependencies not available"))
     ELSE pc' = "q99" /\ UNCHANGED <<stdout, exit_status, failure, observed>>
  /\ UNCHANGED <<inputs, zone_code, query, processor, tmp_file_path, documents,
                 full_text, pdf_text, fetched, answer, runs, prompt, result, uncaught, th,
                 counters, stages>>

(***************************************************************************)
(* SimplePDFProcessor.query_zone_with_ai and extract_pdf_text, called from *)
(* main at line 168.                                                       *)
(***************************************************************************)
\* lines 99-104: the guards of query_zone_with_ai
SimpleQueryGuards ==
  /\ script = "simple" /\ pc = "q99"
  /\ IF ~processor.llm
     THEN /\ result' = None /\ pc' = "m170"
          /\ failure' = "ConfigurationError"
          /\ UNCHANGED stages
     ELSE /\ stages' = Append(stages, "ResolvingZone")
          /\ IF ~Simple_zone_known(zone_code)
             THEN result' = None /\ pc' = "m170" /\ failure' = "UnknownZone"
             ELSE pc' = "x70" /\ UNCHANGED <<result, failure>>
  /\ UNCHANGED <<inputs, zone_code, query, processor, tmp_file_path, documents,
                 full_text, pdf_text, fetched, answer, observed, runs, prompt, stdout,
                 exit_status, uncaught, th, counters>>

\* the URL extract_pdf_text is called with (line 107)
SimpleUrl == Simple_get_zone_pdf_urls[zone_code]

\* SimpleFetch without line 76: a response with an error status is staged
SimpleFetch_unchecked ==
  /\ script = "simple" /\ pc = "x70"
  /\ processor.available
  /\ n_get' = Append(n_get, SimpleUrl)
  /\ stages' = Append(stages, "Fetching")
  /\ \E outcome \in FetchOutcomes :
       /\ fetched' = outcome
       /\ IF outcome \in {"ok", "http_status"}
          THEN pc' = "x78" /\ UNCHANGED <<pdf_text, stdout, failure>>
          ELSE /\ stdout' = Append(stdout, TextLine("Error extracting PDF text"))
               /\ pdf_text' = None
               /\ failure' = "FetchError"
               /\ pc' = "q108"
  /\ UNCHANGED <<inputs, zone_code, query, processor, tmp_file_path, documents,
                 full_text, answer, observed, runs, prompt, result, exit_status,
                 uncaught, th, n_load, n_split, n_invoke, tmp_files, n_tmp>>

\* lines 70-76 and the handler of lines 93-95: the availability guard, then
\* requests.get and raise_for_status
SimpleFetch ==
  /\ script = "simple" /\ pc = "x70"
  /\ IF ~processor.available
     THEN /\ pdf_text' = None /\ pc' = "q108"
          /\ failure' = "ConfigurationError"
          /\ UNCHANGED <<n_get, stages, stdout, fetched>>
     ELSE /\ n_get' = Append(n_get, SimpleUrl)
          /\ stages' = Append(stages, "Fetching")
          /\ \E outcome \in FetchOutcomes :
               /\ fetched' = outcome
               /\ IF outcome = "ok"
                  THEN pc' = "x78" /\ UNCHANGED <<pdf_text, stdout, failure>>
                  ELSE /\ stdout' = Append(stdout, TextLine("Error extracting PDF text"))
                       /\ pdf_text' = None
                       /\ failure' = "FetchError"
                       /\ pc' = "q108"
  /\ UNCHANGED <<inputs, zone_code, query, processor, tmp_file_path, documents,
                 full_text, answer, observed, runs, prompt, result, exit_status,
                 uncaught, th, n_load, n_split, n_invoke, tmp_files, n_tmp>>

\* lines 78-80: NamedTemporaryFile(delete=False) holding response.content
SimpleStage ==
  /\ script = "simple" /\ pc = "x78"
  /\ n_tmp' = n_tmp + 1
  /\ tmp_file_path' = n_tmp + 1
  /\ tmp_files' = tmp_files \cup {n_tmp + 1}
  /\ pc' = "x83"
  /\ UNCHANGED <<inputs, zone_code, query, processor, documents, full_text, pdf_text,
                 fetched, answer, failure, observed, runs, prompt, result, stdout, exit_status,
                 uncaught, th, n_get, n_load, n_split, n_invoke, stages>>

\* SimpleLoad with a handler that fetches the document again, once
SimpleLoad_refetch ==
  /\ script = "simple" /\ pc = "x83"
  /\ n_load' = n_load + 1
  /\ stages' = Append(stages, "Extracting")
  /\ \E raised \in BOOLEAN, docs \in DecodedDocs :
       IF raised
       THEN /\ docs = <<>>
            /\ stdout' = Append(stdout, TextLine("Error extracting PDF text"))
            /\ IF n_load = 0
               THEN pc' = "x70" /\ UNCHANGED <<pdf_text, failure>>
               ELSE pdf_text' = None /\ failure' = "DecodeError" /\ pc' = "q108"
            /\ UNCHANGED documents
       ELSE /\ documents' = docs
            /\ pc' = "x87"
            /\ UNCHANGED <<pdf_text, stdout, failure>>
  /\ UNCHANGED <<inputs, zone_code, query, processor, tmp_file_path, full_text, fetched, answer,
                 observed, runs, prompt, result, exit_status, uncaught, th, n_get, n_split,
                 n_invoke, tmp_files, n_tmp>>

\* lines 83-84 and the handler of lines 93-95: PyPDFLoader(tmp_file_path).load()
SimpleLoad ==
  /\ script = "simple" /\ pc = "x83"
  /\ n_load' = n_load + 1
  /\ stages' = Append(stages, "Extracting")
  /\ \E raised \in BOOLEAN, docs \in DecodedDocs :
       IF raised
       THEN /\ docs = <<>>
            /\ stdout' = Append(stdout, TextLine("Error extracting PDF text"))
            /\ pdf_text' = None
            /\ failure' = "DecodeError"
            /\ pc' = "q108"
            /\ UNCHANGED documents
       ELSE /\ documents' = docs
            /\ pc' = "x87"
            /\ UNCHANGED <<pdf_text, stdout, failure>>
  /\ UNCHANGED <<inputs, zone_code, query, processor, tmp_file_path, full_text, fetched, answer,
                 observed, runs, prompt, result, exit_status, uncaught, th, n_get, n_split,
                 n_invoke, tmp_files, n_tmp>>

\* line 87: os.unlink(tmp_file_path)
SimpleUnlink ==
  /\ script = "simple" /\ pc = "x87"
  /\ tmp_files' = tmp_files \ {tmp_file_path}
  /\ pc' = "x90"
  /\ UNCHANGED <<inputs, zone_code, query, processor, simple_locals, prompt, result,
                 stdout, exit_status, uncaught, th, n_get, n_load, n_split, n_invoke,
                 n_tmp, stages>>

\* lines 90-91: "\n".join of the pages, returned to line 107
SimpleJoin ==
  /\ script = "simple" /\ pc = "x90"
  /\ full_text' = Join(<<NL>>, documents)
  /\ pdf_text' = Join(<<NL>>, documents)
  /\ documents' = <<>>
  /\ pc' = "q108"
  /\ UNCHANGED <<inputs, zone_code, query, processor, tmp_file_path, fetched, answer, failure,
                 observed, runs, prompt, result, stdout, exit_status, uncaught, th, counters,
                 stages>>

\* SimpleTruncate with the test `if pdf_text is None` for `if not pdf_text`
SimpleTruncate_none_only ==
  /\ script = "simple" /\ pc = "q108"
  /\ IF pdf_text = None
     THEN /\ result' = None /\ pc' = "m170"
          /\ failure' = IF failure = "" THEN "EmptyText" ELSE failure
          /\ UNCHANGED <<pdf_text, stages>>
     ELSE /\ pdf_text' = Truncate(pdf_text)
          /\ stages' = Append(stages, "SelectingEvidence")
          /\ pc' = "q114"
          /\ UNCHANGED <<result, failure>>
  /\ UNCHANGED <<inputs, zone_code, query, processor, tmp_file_path, documents,
                 full_text, fetched, answer, observed, runs, prompt, stdout, exit_status,
                 uncaught, th, counters>>

\* lines 108-112: no text ends the query, else the text is cut
SimpleTruncate ==
  /\ script = "simple" /\ pc = "q108"
  /\ IF ~Truthy(pdf_text)
     THEN /\ result' = None /\ pc' = "m170"
          /\ failure' = IF failure = "" THEN "EmptyText" ELSE failure
          /\ UNCHANGED <<pdf_text, stages>>
     ELSE /\ pdf_text' = Truncate(pdf_text)
          /\ stages' = Append(stages, "SelectingEvidence")
          /\ pc' = "q114"
          /\ UNCHANGED <<result, failure>>
  /\ UNCHANGED <<inputs, zone_code, query, processor, tmp_file_path, documents,
                 full_text, fetched, answer, observed, runs, prompt, stdout, exit_status,
                 uncaught, th, counters>>

\* the f-string of lines 115-122: what it embeds
Prompt(zc, q, evidence) == [zone_code |-> zc, query |-> q, evidence |-> evidence]

\* SimpleInvoke with a handler that calls llm.invoke a second time
SimpleInvoke_retry ==
  /\ script = "simple" /\ pc = "q114"
  /\ stages' = Append(stages, "Synthesizing")
  /\ \E raised \in BOOLEAN, r \in Answers :
       IF raised
       THEN /\ r = <<>>
            /\ prompt' = prompt \o <<Prompt(zone_code, query, pdf_text),
                                     Prompt(zone_code, query, pdf_text)>>
            /\ n_invoke' = n_invoke + 2
            /\ stdout' = Append(stdout, TextLine("Error querying AI"))
            /\ result' = None
            /\ failure' = "SynthesisError"
            /\ UNCHANGED answer
       ELSE /\ prompt' = Append(prompt, Prompt(zone_code, query, pdf_text))
            /\ n_invoke' = n_invoke + 1
            /\ result' = r
            /\ answer' = r
            /\ UNCHANGED <<stdout, failure>>
  /\ pc' = "m170"
  /\ UNCHANGED <<inputs, zone_code, query, processor, tmp_file_path, documents,
                 full_text, pdf_text, fetched, observed, runs, exit_status, uncaught,
                 th, n_get, n_load, n_split, tmp_files, n_tmp>>

\* lines 114-129: the prompt, llm.invoke and the handler
SimpleInvoke ==
  /\ script = "simple" /\ pc = "q114"
  /\ stages' = Append(stages, "Synthesizing")
  /\ prompt' = Append(prompt, Prompt(zone_code, query, pdf_text))
  /\ n_invoke' = n_invoke + 1
  /\ \E raised \in BOOLEAN, r \in Answers :
       IF raised
       THEN /\ r = <<>>
            /\ stdout' = Append(stdout, TextLine("Error querying AI"))
            /\ result' = None
            /\ failure' = "SynthesisError"
            /\ UNCHANGED answer
       ELSE /\ result' = r
            /\ answer' = r
            /\ UNCHANGED <<stdout, failure>>
  /\ pc' = "m170"
  /\ UNCHANGED <<inputs, zone_code, query, processor, tmp_file_path, documents,
                 full_text, pdf_text, fetched, observed, runs, exit_status, uncaught,
                 th, n_get, n_load, n_split, tmp_files, n_tmp>>

\* the response dictionary with success taken from the truth value of result
SimpleResponse_truthy(zc, q, res) ==
  [success |-> Truthy(res),
   zone_code |-> zc,
   query |-> q,
   result |-> res,
   error |-> IF ~Truthy(res) THEN Message("Failed to process query") ELSE None]

\* lines 170-176: the response dictionary
SimpleResponse(zc, q, res) ==
  [success |-> res # None,
   zone_code |-> zc,
   query |-> q,
   result |-> res,
   error |-> IF res = None THEN Message("Failed to process query") ELSE None]

\* SimpleRespond in a main that runs a failed query a second time
SimpleRespond_requery ==
  /\ script = "simple" /\ pc = "m170"
  /\ stdout' = Append(stdout, JsonLine(SimpleResponse(zone_code, query, result)))
  /\ IF result = None /\ ~Responded
     THEN pc' = "q99" /\ UNCHANGED exit_status
     ELSE pc' = "exit" /\ exit_status' = 0
  /\ IF SimpleResponse(zone_code, query, result).success
     THEN UNCHANGED observed
     ELSE Observe(failure, SimpleResponse(zone_code, query, result))
  /\ UNCHANGED <<inputs, zone_code, query, processor, tmp_file_path, documents,
                 full_text, pdf_text, fetched, answer, failure, runs, prompt, result, uncaught,
                 th, counters, stages>>

\* lines 170-178: the response is printed and main returns
SimpleRespond ==
  /\ script = "simple" /\ pc = "m170"
  /\ Exit(JsonLine(SimpleResponse(zone_code, query, result)), 0)
  /\ IF SimpleResponse(zone_code, query, result).success
     THEN UNCHANGED observed
     ELSE Observe(failure, SimpleResponse(zone_code, query, result))
  /\ UNCHANGED <<inputs, zone_code, query, processor, tmp_file_path, documents,
                 full_text, pdf_text, fetched, answer, failure, runs, prompt, result, uncaught,
                 th, counters, stages>>

(***************************************************************************)
(* langchain-pdf-rag.py: AucklandCouncilPDFProcessor.                      *)
(***************************************************************************)
\* RecursiveCharacterTextSplitter(chunk_size=1000, chunk_overlap=200)
ChunkSize == 1000
ChunkOverlap == 200

\* one text cut into windows of ChunkSize that overlap by ChunkOverlap
RECURSIVE SplitText(_)
SplitText(text) ==
  IF text = <<>> THEN <<>>
  ELSE IF Len(text) <= ChunkSize THEN <<text>>
  ELSE <<SubSeq(text, 1, ChunkSize)>>
         \o SplitText(SubSeq(text, ChunkSize - ChunkOverlap + 1, Len(text)))

\* self.text_splitter.split_documents(documents): each page is split alone
RECURSIVE split_documents(_)
split_documents(docs) ==
  IF docs = <<>> THEN <<>>
  ELSE SplitText(Head(docs)) \o split_documents(Tail(docs))

\* AucklandCouncilPDFProcessor.__init__, lines 27-53.  names: the module's
\* bound names; ctor_ok: OpenAI(...) does not raise.  The result is the
\* exception that leaves __init__ ("" for none), the object and the prints.
Rag_init(names, openai_api_key, ctor_ok) ==
  IF "PyPDFLoader" \notin names
  THEN [raised |-> "NameError", obj |-> NoObject, out |-> <<>>]
  ELSE IF "RecursiveCharacterTextSplitter" \notin names
  THEN [raised |-> "",
        obj |-> [attrs |-> {"available"}, available |-> FALSE, llm |-> FALSE,
                 vector_stores |-> {}],
        out |-> <<TextLine("Error initializing LangChain components")>>]
  ELSE IF openai_api_key \in {KeyUnset, ""}
  THEN [raised |-> "",
        obj |-> [attrs |-> {"available", "text_splitter", "pdf_content", "llm"},
                 available |-> TRUE, llm |-> FALSE, vector_stores |-> {}],
        out |-> <<>>]
  ELSE IF "OpenAI" \notin names \/ ~ctor_ok
  THEN [raised |-> "",
        obj |-> [attrs |-> {"available", "text_splitter", "pdf_content"},
                 available |-> FALSE, llm |-> FALSE, vector_stores |-> {}],
        out |-> <<TextLine("Error initializing LangChain components")>>]
  ELSE [raised |-> "",
        obj |-> [attrs |-> {"available", "text_splitter", "pdf_content", "llm"},
                 available |-> TRUE, llm |-> TRUE, vector_stores |-> {}],
        out |-> <<>>]

\* the names bound in the running module
names == ModuleNames(script, import_fail)

\* a method returns v to its caller: to the label on the stack, or to the
\* thread's client
ReturnText(f, v) == [f EXCEPT !.pc = "done", !.stack = <<>>, !.ret_text = v]
ReturnOk(f, v) ==
  IF f.stack = <<>> THEN [f EXCEPT !.pc = "done", !.ret_ok = v]
  ELSE [f EXCEPT !.pc = Head(f.stack), !.stack = Tail(f.stack), !.ok = v]
ReturnChunks(f, v) ==
  IF f.stack = <<>> THEN [f EXCEPT !.pc = "done", !.ret_chunks = v]
  ELSE [f EXCEPT !.pc = Head(f.stack), !.stack = Tail(f.stack), !.chunks = v]

\* an exception no handler on the thread's stack catches
Raise(f, exc) == [f EXCEPT !.pc = "done", !.stack = <<>>, !.raised = exc]

\* the labels of load_pdf_from_url and of the build part of create_vector_store
LoadLabels == {"l77", "l85", "l90", "l94", "l97"}
BuildLabels == {"c124", "c129", "c130"}

\* thread t is between line 119 and the return of create_vector_store
BuildInFlight(t) ==
  \/ th[t].pc \in BuildLabels
  \/ th[t].pc \in LoadLabels /\ \E i \in 1..Len(th[t].stack) : th[t].stack[i] = "c124"

\* one statement group of the call thread t is in
RagStep(t) ==
  LET f == th[t]
      Set(g) == th' = [th EXCEPT ![t] = g]
      Keep == UNCHANGED <<processor, stdout, counters>>
      Out(line) == stdout' = Append(stdout, line)
  IN
  /\ script \in {"rag", "rag_api"}
  /\ f.pc \notin {"idle", "done"}
  /\ CASE f.pc = "q141" ->
            \* lines 141-146
            /\ IF ~processor.available THEN Set(ReturnText(f, None))
               ELSE IF "llm" \notin processor.attrs THEN Set(Raise(f, "AttributeError"))
               ELSE IF ~processor.llm THEN Set(ReturnText(f, None))
               ELSE IF "vector_stores" \notin processor.attrs
               THEN Set(Raise(f, "AttributeError"))
               ELSE IF f.zone_code \notin processor.vector_stores
               THEN Set([f EXCEPT !.pc = "c109", !.stack = <<"q145">> \o @])
               ELSE Set([f EXCEPT !.pc = "q148"])
            /\ Keep
       [] f.pc = "q145" ->
            \* lines 145-146: create_vector_store has returned
            /\ IF ~f.ok THEN Set(ReturnText(f, None)) ELSE Set([f EXCEPT !.pc = "q148"])
            /\ Keep
       [] f.pc = "c109" ->
            \* lines 109-119
            /\ IF ~processor.available THEN Set(ReturnOk(f, FALSE)) /\ UNCHANGED stdout
               ELSE IF "vector_stores" \notin processor.attrs
               THEN Set(Raise(f, "AttributeError")) /\ UNCHANGED stdout
               ELSE IF f.zone_code \in processor.vector_stores
               THEN Set(ReturnOk(f, TRUE)) /\ UNCHANGED stdout
               ELSE IF ~Rag_zone_known(f.zone_code)
               THEN Set(ReturnOk(f, FALSE)) /\ UNCHANGED stdout
               ELSE /\ Set([f EXCEPT !.pc = "l77", !.stack = <<"c124">> \o @,
                                     !.pdf_url = Rag_get_zone_pdf_urls[f.zone_code]])
                    /\ Out(TextLine("Creating vector store"))
            /\ UNCHANGED <<processor, counters>>
       [] f.pc = "l77" ->
            \* lines 77-83 and the handler of lines 101-103
            IF ~processor.available
            THEN Set(ReturnChunks(f, <<>>)) /\ Keep
            ELSE /\ n_get' = Append(n_get, f.pdf_url)
                 /\ \E outcome \in FetchOutcomes :
                      IF outcome = "ok"
                      THEN /\ Set([f EXCEPT !.pc = "l85", !.gets = @ + 1,
                                            !.fetched = outcome])
                           /\ UNCHANGED stdout
                      ELSE /\ Set(ReturnChunks([f EXCEPT !.gets = @ + 1,
                                                          !.fetched = outcome,
                                                          !.failure = "FetchError"], <<>>))
                           /\ Out(TextLine("Error loading PDF"))
                 /\ UNCHANGED <<processor, n_load, n_split, n_invoke, tmp_files, n_tmp>>
       [] f.pc = "l85" ->
            \* lines 85-87
            /\ n_tmp' = n_tmp + 1
            /\ tmp_files' = tmp_files \cup {n_tmp + 1}
            /\ Set([f EXCEPT !.pc = "l90", !.tmp_file_path = n_tmp + 1])
            /\ UNCHANGED <<processor, stdout, n_get, n_load, n_split, n_invoke>>
       [] f.pc = "l90" ->
            \* lines 90-91 and the handler of lines 101-103
            /\ n_load' = n_load + 1
            /\ \E raised \in BOOLEAN, docs \in DecodedDocs :
                 IF raised
                 THEN /\ docs = <<>>
                      /\ Set(ReturnChunks([f EXCEPT !.loads = @ + 1,
                                                     !.failure = "DecodeError"], <<>>))
                      /\ Out(TextLine("Error loading PDF"))
                 ELSE /\ Set([f EXCEPT !.pc = "l94", !.documents = docs,
                                       !.loads = @ + 1])
                      /\ UNCHANGED stdout
            /\ UNCHANGED <<processor, n_get, n_split, n_invoke, tmp_files, n_tmp>>
       [] f.pc = "l94" ->
            \* line 94
            /\ tmp_files' = tmp_files \ {f.tmp_file_path}
            /\ Set([f EXCEPT !.pc = "l97"])
            /\ UNCHANGED <<processor, stdout, n_get, n_load, n_split, n_invoke, n_tmp>>
       [] f.pc = "l97" ->
            \* lines 97-99 and the handler of lines 101-103
            IF "text_splitter" \notin processor.attrs
            THEN /\ Set(ReturnChunks([f EXCEPT !.documents = <<>>], <<>>))
                 /\ Out(TextLine("Error loading PDF"))
                 /\ UNCHANGED <<processor, counters>>
            ELSE /\ n_split' = n_split + 1
                 /\ Set(ReturnChunks([f EXCEPT !.documents = <<>>],
                                     split_documents(f.documents)))
                 /\ UNCHANGED <<processor, stdout, n_get, n_load, n_invoke, tmp_files,
                                n_tmp>>
       [] f.pc = "c124" ->
            \* lines 122-125: load_pdf_from_url has returned
            /\ IF f.chunks = <<>> THEN Set(ReturnOk(f, FALSE))
               ELSE Set([f EXCEPT !.pc = "c129"])
            /\ Keep
       [] f.pc = "c129" ->
            \* line 129 and the handler of lines 133-135
            /\ IF "FAISS" \notin names \/ "embeddings" \notin processor.attrs
               THEN /\ Set(ReturnOk([f EXCEPT !.chunks = <<>>], FALSE))
                    /\ Out(TextLine("Error creating vector store"))
               ELSE \E built \in BOOLEAN :
                      IF built
                      THEN Set([f EXCEPT !.pc = "c130"]) /\ UNCHANGED stdout
                      ELSE /\ Set(ReturnOk([f EXCEPT !.chunks = <<>>], FALSE))
                           /\ Out(TextLine("Error creating vector store"))
            /\ UNCHANGED <<processor, counters>>
       [] f.pc = "c130" ->
            \* lines 130-132
            /\ processor' = [processor EXCEPT !.vector_stores = @ \cup {f.zone_code}]
            /\ Set(ReturnOk([f EXCEPT !.chunks = <<>>], TRUE))
            /\ Out(TextLine("Vector store created"))
            /\ UNCHANGED counters
       [] f.pc = "q148" ->
            \* lines 148-163
            IF "RetrievalQA" \notin names \/ f.zone_code \notin processor.vector_stores
            THEN /\ Set(ReturnText(f, None))
                 /\ Out(TextLine("Error querying zone"))
                 /\ UNCHANGED <<processor, counters>>
            ELSE /\ n_invoke' = n_invoke + 1
                 /\ \E raised \in BOOLEAN, r \in Answers :
                      IF raised
                      THEN /\ r = <<>>
                           /\ Set(ReturnText([f EXCEPT !.invokes = @ + 1], None))
                           /\ Out(TextLine("Error querying zone"))
                      ELSE /\ Set(ReturnText([f EXCEPT !.invokes = @ + 1], r))
                           /\ UNCHANGED stdout
                 /\ UNCHANGED <<processor, n_get, n_load, n_split, tmp_files, n_tmp>>
  /\ UNCHANGED <<inputs, pc, zone_code, query, simple_locals, prompt, result,
                 exit_status, uncaught, stages>>

\* the methods a client of the class calls
RagOps == {"query_zone_planning_rules", "create_vector_store", "load_pdf_from_url"}

\* the first label of a method
Entry(op) ==
  IF op = "query_zone_planning_rules" THEN "q141"
  ELSE IF op = "create_vector_store" THEN "c109" ELSE "l77"

\* the frame of a call of op(zc, q) by a thread that made n calls before
Call(op, zc, q, n) ==
  [IdleThread EXCEPT !.pc = Entry(op), !.op = op, !.calls = n + 1,
                     !.zone_code = zc, !.query = q,
                     !.pdf_url = IF op = "load_pdf_from_url" /\ Rag_zone_known(zc)
                                 THEN Rag_get_zone_pdf_urls[zc] ELSE <<>>]

\* a client thread calls a method of the shared processor
RagCall(t) ==
  /\ script = "rag_api" /\ pc = "api"
  /\ th[t].pc \in {"idle", "done"}
  /\ th[t].calls < MaxCalls
  /\ \E op \in RagOps, zc \in ZoneInputs, ws \in SeqsUpTo(Words, 1) :
       /\ op = "load_pdf_from_url" => Rag_zone_known(zc) /\ ws = <<>>
       /\ op = "create_vector_store" => ws = <<>>
       /\ th' = [th EXCEPT ![t] = Call(op, zc, Join(<<SP>>, ws), th[t].calls)]
  /\ UNCHANGED <<inputs, pc, zone_code, query, processor, simple_locals, prompt, result,
                 stdout, exit_status, uncaught, counters, stages>>

(***************************************************************************)
(* langchain-pdf-rag.py: main, lines 190-230.                              *)
(***************************************************************************)
\* lines 194-199
RagArgs ==
  /\ script = "rag" /\ pc = "m144"
  /\ IF Len(argv) < 2
     THEN /\ Exit(TextLine("usage"), 1)
          /\ UNCHANGED <<zone_code, query>>
     ELSE /\ zone_code' = argv[1]
          /\ query' = Join(<<SP>>, Tail(argv))
          /\ pc' = "m151"
          /\ UNCHANGED <<stdout, exit_status>>
  /\ UNCHANGED <<inputs, processor, simple_locals, prompt, result, uncaught, th,
                 counters, stages>>

\* lines 202-205: the credential check prints a line of text
RagKey ==
  /\ script = "rag" /\ pc = "m151"
  /\ IF environ_key \in {KeyUnset, ""}
     THEN Exit(TextLine("Error: OPENAI_API_KEY environment variable not set"), 1)
     ELSE pc' = "m207" /\ UNCHANGED <<stdout, exit_status>>
  /\ UNCHANGED <<inputs, zone_code, query, processor, simple_locals, prompt, result,
                 uncaught, th, counters, stages>>

\* line 207 (and the construction by a client of the class)
RagConstruct ==
  /\ script \in {"rag", "rag_api"} /\ pc = "m207"
  /\ \E ctor_ok \in BOOLEAN :
       LET made == Rag_init(names, environ_key, ctor_ok)
       IN  IF made.raised # ""
           THEN /\ uncaught' = made.raised
                /\ exit_status' = 1
                /\ pc' = "exit"
                /\ UNCHANGED <<processor, stdout>>
           ELSE /\ processor' = made.obj
                /\ stdout' = stdout \o made.out
                /\ pc' = IF script = "rag" THEN "m209" ELSE "api"
                /\ UNCHANGED <<uncaught, exit_status>>
  /\ UNCHANGED <<inputs, zone_code, query, simple_locals, prompt, result, th, counters,
                 stages>>

\* lines 215-228: the response dictionary
RagResponse(zc, q, res) ==
  IF Truthy(res)
  THEN [success |-> TRUE, zone_code |-> zc, query |-> q, result |-> res]
  ELSE [success |-> FALSE, zone_code |-> zc, query |-> q,
        error |-> Message("Failed to process query")]

\* lines 209-230: the availability check, the query and the response
RagRun ==
  /\ script = "rag" /\ pc \in {"m209", "m213"}
  /\ CASE pc = "m209" ->
            /\ IF ~processor.available
               THEN /\ Exit(TextLine("Error: LangChain dependencies not available"), 1)
                    /\ UNCHANGED th
               ELSE /\ th' = [th EXCEPT ![1] = Call("query_zone_planning_rules",
                                                    zone_code, query, 0)]
                    /\ pc' = "m213"
                    /\ UNCHANGED <<stdout, exit_status>>
            /\ UNCHANGED <<result, uncaught>>
       [] pc = "m213" ->
            /\ th[1].pc = "done"
            /\ IF th[1].raised # ""
               THEN /\ uncaught' = th[1].raised
                    /\ exit_status' = 1
                    /\ pc' = "exit"
                    /\ UNCHANGED <<result, stdout>>
               ELSE /\ result' = th[1].ret_text
                    /\ Exit(JsonLine(RagResponse(zone_code, query, th[1].ret_text)), 0)
                    /\ UNCHANGED uncaught
            /\ UNCHANGED th
  /\ UNCHANGED <<inputs, zone_code, query, processor, simple_locals, prompt, counters,
                 stages>>

(***************************************************************************)
(* The command is run again (lines 181-182 of simple-pdf-processor.py,     *)
(* lines 233-234 of langchain-pdf-rag.py): a new process with new inputs.  *)
(***************************************************************************)
Rerun ==
  /\ script \in {"simple", "rag"} /\ pc = "exit"
  /\ runs < MaxRuns
  /\ runs' = runs + 1
  /\ import_fail' = 0
  /\ argv' = <<>>
  /\ environ_key' = KeyUnset
  /\ pc' = "launch"
  /\ zone_code' = "" /\ query' = None
  /\ processor' = NoObject
  /\ tmp_file_path' = 0 /\ documents' = <<>> /\ full_text' = None /\ pdf_text' = None
  /\ fetched' = "" /\ answer' = None /\ failure' = ""
  /\ prompt' = <<>>
  /\ result' = None
  /\ stdout' = <<>>
  /\ exit_status' = -1 /\ uncaught' = ""
  /\ n_get' = <<>>
  /\ n_load' = 0 /\ n_split' = 0 /\ n_invoke' = 0
  /\ tmp_files' = {} /\ n_tmp' = 0
  /\ stages' = <<>>
  /\ UNCHANGED <<script, observed, th>>

Next ==
  \/ Launch
  \/ SimpleArgs \/ SimpleKey \/ SimpleConstruct \/ SimpleCheckAvailable
  \/ SimpleQueryGuards \/ SimpleFetch \/ SimpleStage \/ SimpleLoad \/ SimpleUnlink
  \/ SimpleJoin \/ SimpleTruncate \/ SimpleInvoke \/ SimpleRespond
  \/ RagArgs \/ RagKey \/ RagConstruct \/ RagRun
  \/ \E t \in Threads : RagCall(t)
  \/ \E t \in Threads : RagStep(t)
  \/ Rerun

Spec == Init /\ [][Next]_vars

\* The interpreter goes on to the next statement as long as there is one, and
\* every external call (requests.get with timeout=30, loader.load,
\* llm.invoke) returns or raises.
FairSpec ==
  Spec /\ WF_vars(SimpleQueryGuards \/ SimpleFetch \/ SimpleStage \/ SimpleLoad
                     \/ SimpleUnlink \/ SimpleJoin \/ SimpleTruncate \/ SimpleInvoke
                     \/ SimpleRespond)

(***************************************************************************)
(* What the claims speak of.                                               *)
(***************************************************************************)
\* thread t's outermost call takes a zone code
ZoneCall(t) == th[t].op \in {"query_zone_planning_rules", "create_vector_store"}

\* thread t's outermost call has ended in failure: an exception, or the
\* method's failure value (None, False, [])
CallFailed(t) ==
  /\ th[t].pc = "done"
  /\ \/ th[t].raised # ""
     \/ th[t].op = "query_zone_planning_rules" /\ th[t].ret_text = None
     \/ th[t].op = "create_vector_store" /\ th[t].ret_ok = FALSE
     \/ th[t].op = "load_pdf_from_url" /\ th[t].ret_chunks = <<>>

\* main of simple-pdf-processor.py has printed its response for a failed query
SimpleFailed == pc = "exit" /\ exit_status = 0 /\ Responded /\ ~Response.success

(***************************************************************************)
(* C1: a query for a zone code that is not a key of the processor's        *)
(* registry performs no fetch and no completion call and ends in failure:  *)
(* in the simple processor the query never reaches the statements of       *)
(* extract_pdf_text or llm.invoke, returns None and the response printed   *)
(* has success = false; in the retrieval processor a call of               *)
(* query_zone_planning_rules or create_vector_store with such a code       *)
(* fetches nothing, completes nothing and ends in failure.                 *)
(***************************************************************************)
C1_UnknownZoneNoNetwork ==
  /\ (script = "simple" /\ zone_code # ""
        /\ zone_code \notin DOMAIN Simple_get_zone_pdf_urls)
       => /\ TotalGets = 0 /\ n_load = 0 /\ n_invoke = 0
          /\ pc \in {"m151", "m159", "m161", "q99", "m170", "exit"}
          /\ pc = "m170" => result = None
          /\ (pc = "exit" /\ exit_status = 0) => SimpleFailed
  /\ \A t \in Threads :
       (ZoneCall(t) /\ th[t].zone_code \notin DOMAIN Rag_get_zone_pdf_urls)
         => /\ th[t].gets = 0 /\ th[t].invokes = 0
            /\ th[t].pc = "done" => CallFailed(t)

\* the simple query for an unregistered code was ended by the registry guard
C1_Witness ==
  /\ script = "simple" /\ SimpleFailed
  /\ zone_code \notin DOMAIN Simple_get_zone_pdf_urls
  /\ failure = "UnknownZone"
  /\ TotalGets = 0

(***************************************************************************)
(* C2: when the fetch for a registered zone fails (transport error,        *)
(* timeout or error status), the decoder and the completion service are    *)
(* not invoked in that query and the query ends in failure.                *)
(***************************************************************************)
C2_FetchFailureStops ==
  /\ (script = "simple" /\ fetched \notin {"", "ok"})
       => /\ n_load = 0 /\ n_invoke = 0 /\ n_tmp = 0
          /\ pc \in {"q108", "m170", "exit"}
          /\ pc = "m170" => result = None
          /\ pc = "exit" => SimpleFailed
  /\ \A t \in Threads :
       th[t].fetched \notin {"", "ok"}
         => /\ th[t].loads = 0 /\ th[t].invokes = 0
            /\ th[t].pc = "done" => CallFailed(t)

\* a simple query whose fetch got an error status has printed its response
C2_Witness ==
  /\ script = "simple" /\ SimpleFailed
  /\ fetched = "http_status"
  /\ TotalGets = 1 /\ n_load = 0 /\ n_invoke = 0

(***************************************************************************)
(* C5: the temporary file that stages the fetched bytes is released on     *)
(* every exit path of the extraction step: once extract_pdf_text (simple   *)
(* processor) or load_pdf_from_url (retrieval processor) has returned,     *)
(* with text or after a decode failure, no temporary file made by the      *)
(* call exists.                                                            *)
(***************************************************************************)
C5_TempFileReleased ==
  /\ (script = "simple" /\ pc \in {"q108", "q114", "m170", "exit"}) => tmp_files = {}
  /\ \A t \in Threads :
       th[t].tmp_file_path \in tmp_files => th[t].pc \in {"l90", "l94"}

(***************************************************************************)
(* C6: in the truncation strategy the evidence placed in the prompt is the *)
(* prefix of the extracted text of length min(len(text), 8000): never      *)
(* longer than 8000 characters, and the whole text when that is shorter    *)
(* than 8000 characters.                                                   *)
(***************************************************************************)
C6_EvidenceIsPrefix ==
  \A i \in 1..Len(prompt) :
    LET evidence == prompt[i].evidence
    IN  /\ full_text # None
        /\ Len(evidence) <= 8000
        /\ Len(evidence) = IF Len(full_text) < 8000 THEN Len(full_text) ELSE 8000
        /\ evidence = SubSeq(full_text, 1, Len(evidence))
        /\ Len(full_text) < 8000 => evidence = full_text

\* a prompt was built from a text longer than the limit
C6_Witness ==
  /\ script = "simple" /\ Len(prompt) = 1
  /\ full_text # None /\ Len(full_text) > 8000
  /\ Len(prompt[1].evidence) = 8000

(***************************************************************************)
(* C7: the completion service is invoked at most once in any query,        *)
(* exactly once in a query that reaches synthesis (its extraction yielded  *)
(* text) and not at all in a query that failed before.                     *)
(***************************************************************************)
C7_OneCompletionPerQuery ==
  /\ script = "simple" =>
       /\ n_invoke <= 1
       /\ Len(prompt) = n_invoke
       /\ pc \in {"m170", "exit"} =>
            /\ Truthy(full_text) => n_invoke = 1
            /\ ~Truthy(full_text) => n_invoke = 0
  /\ \A t \in Threads : th[t].invokes <= 1

\* a query whose completion call raised has ended: the call was made once
C7_Witness ==
  /\ script = "simple" /\ SimpleFailed
  /\ failure = "SynthesisError"
  /\ n_invoke = 1

(***************************************************************************)
(* C8: simple processor, end to end: for a registered zone code, when the  *)
(* fetch succeeds, the decoder yields non-empty text and the completion    *)
(* service returns text r, the command's response has success = true, the  *)
(* zone_code and the query of the command line, and result = r.            *)
(***************************************************************************)
C8_SimpleEndToEnd ==
  (/\ script = "simple" /\ pc = "exit"
   /\ fetched = "ok" /\ Truthy(full_text) /\ answer # None)
    => /\ exit_status = 0 /\ Responded
       /\ Response.success = TRUE
       /\ Response.zone_code = argv[1]
       /\ Response.zone_code \in DOMAIN Simple_get_zone_pdf_urls
       /\ Response.query = Join(<<SP>>, Tail(argv))
       /\ Response.result = answer

\* the response of a run whose completion returned a text
C8_Witness ==
  /\ script = "simple" /\ pc = "exit" /\ Responded
  /\ fetched = "ok" /\ Truthy(full_text)
  /\ answer = <<"8", SP, "m">>
  /\ Response.success /\ Response.result = <<"8", SP, "m">>

(***************************************************************************)
(* C9: retrieval processor, end to end: when the dependency stack imports  *)
(* and a credential is supplied, the constructor leaves the processor      *)
(* available, and the command ends by printing a JSON response.            *)
(***************************************************************************)
C9_RagEndToEnd ==
  (/\ script = "rag" /\ import_fail = 0
   /\ environ_key \notin {KeyUnset, ""} /\ Len(argv) >= 2)
    => /\ pc \in {"m209", "m213"} => processor.available
       /\ pc = "exit" => Responded

(***************************************************************************)
(* C10: a failed query's response carries the error kind of the component  *)
(* that failed: the errors reported for an unregistered zone, a failed     *)
(* fetch, a failed decode and a failed completion call differ from one     *)
(* another.                                                                *)
(***************************************************************************)
C10_ErrorKindsDistinguishable ==
  LET ComponentFailures == {"UnknownZone", "FetchError", "DecodeError", "SynthesisError"}
  IN  \A o1, o2 \in observed :
        (o1[1] \in ComponentFailures /\ o2[1] \in ComponentFailures /\ o1[1] # o2[1])
          => o1[2] # o2[2]

(***************************************************************************)
(* C11: every response the command emits, for success and for every        *)
(* failure kind including a missing credential or unavailable              *)
(* dependencies, is one JSON object with the fields success, zone_code and *)
(* query, plus exactly one of result (when success is true) or error (when *)
(* success is false), never both and never neither.                        *)
(***************************************************************************)
C11_ResponseShape ==
  (script \in {"simple", "rag"} /\ pc = "exit" /\ Len(argv) >= 2)
    => /\ Responded
       /\ Cardinality({i \in 1..Len(stdout) : stdout[i].kind = "json"}) = 1
       /\ {"success", "zone_code", "query"} \subseteq DOMAIN Response
       /\ Response.success \in BOOLEAN
       /\ Response.success
            => "result" \in DOMAIN Response /\ "error" \notin DOMAIN Response
       /\ ~Response.success
            => "error" \in DOMAIN Response /\ "result" \notin DOMAIN Response

(***************************************************************************)
(* C12: when the API credential is absent, or the dependency stack is      *)
(* unavailable, the command ends with a non-zero exit status after         *)
(* printing a JSON error payload, and performs no fetch and no completion  *)
(* call; this holds for both command entry points.                         *)
(***************************************************************************)
C12_ConfigurationErrorExit ==
  (/\ script \in {"simple", "rag"} /\ pc = "exit" /\ Len(argv) >= 2
   /\ environ_key \in {KeyUnset, ""} \/ import_fail # 0)
    => /\ exit_status > 0
       /\ Responded
       /\ ~Response.success
       /\ "error" \in DOMAIN Response
       /\ TotalGets = 0 /\ n_invoke = 0
       /\ \A t \in Threads : th[t].gets = 0 /\ th[t].invokes = 0

(***************************************************************************)
(* C13: when no index can be constructed for a registered zone, the query  *)
(* does not end in failure for that reason: a finished query for a         *)
(* registered zone that has no index in the cache, run with the            *)
(* dependencies imported and a credential, and whose fetch and decode did  *)
(* not fail, has invoked synthesis (on the truncated text).                *)
(***************************************************************************)
C13_FallbackToTruncation ==
  \A t \in Threads :
    (/\ script \in {"rag", "rag_api"}
     /\ import_fail = 0 /\ environ_key \notin {KeyUnset, ""}
     /\ th[t].op = "query_zone_planning_rules" /\ th[t].pc = "done"
     /\ th[t].zone_code \in DOMAIN Rag_get_zone_pdf_urls
     /\ th[t].zone_code \notin processor.vector_stores
     /\ th[t].failure = "")
      => /\ th[t].raised = ""
         /\ th[t].invokes = 1

(***************************************************************************)
(* C14: no error raised inside a command run propagates as an uncaught     *)
(* fault: whatever fails (an import, the constructor, the fetch, the       *)
(* decoder, the index cache lookup, the completion call), a command given  *)
(* its arguments and a credential ends by printing a response, with        *)
(* success = false when something failed, and never through an unhandled   *)
(* exception.                                                              *)
(***************************************************************************)
C14_NoUncaughtFault ==
  /\ script \in {"simple", "rag"} => uncaught = ""
  /\ (/\ script \in {"simple", "rag"} /\ pc = "exit"
      /\ Len(argv) >= 2 /\ environ_key \notin {KeyUnset, ""})
       => /\ Responded
          /\ (import_fail # 0 \/ failure # "") => ~Response.success

(***************************************************************************)
(* C15: each query is single-shot: within one query at most one fetch is   *)
(* issued, at most one temporary file is staged, the decoder runs at most  *)
(* once, and after a failed fetch, decode or completion call no step of    *)
(* that query is attempted again: the query only returns its failure.      *)
(***************************************************************************)
C15_SingleShot ==
  /\ script = "simple" =>
       /\ TotalGets <= 1 /\ n_tmp <= 1 /\ n_load <= 1
       /\ \A i, j \in 1..Len(stages) : stages[i] = stages[j] => i = j
       /\ failure \in {"FetchError", "DecodeError"} => pc \in {"q108", "m170", "exit"}
       /\ failure = "SynthesisError" => pc \in {"m170", "exit"}
  /\ \A t \in Threads :
       /\ th[t].gets <= 1 /\ th[t].loads <= 1
       /\ th[t].failure # "" => th[t].pc \in {"c124", "q145", "done"}

\* a query whose decode failed has ended after one fetch and one decode
C15_Witness ==
  /\ script = "simple" /\ SimpleFailed
  /\ failure = "DecodeError"
  /\ TotalGets = 1 /\ n_load = 1 /\ n_invoke = 0

(***************************************************************************)
(* C16: every query, given that each external call returns or fails,       *)
(* eventually reaches exactly one of the terminal states Done (a response  *)
(* with success = true) or Failed (success = false); the stages it passes  *)
(* through are entered only in the order ResolvingZone, Fetching,          *)
(* Extracting, SelectingEvidence, Synthesizing; and once the query has     *)
(* returned, no stage runs and no external call is made.                   *)
(***************************************************************************)
C16_TerminatesInOrder ==
  /\ [](script = "simple" =>
          LET StageOrder == <<"ResolvingZone", "Fetching", "Extracting",
                              "SelectingEvidence", "Synthesizing">>
              StageIndex(s) == CHOOSE i \in 1..Len(StageOrder) : StageOrder[i] = s
          IN  \A i, j \in 1..Len(stages) :
                /\ \E k \in 1..Len(StageOrder) : StageOrder[k] = stages[i]
                /\ i < j => StageIndex(stages[i]) < StageIndex(stages[j]))
  /\ (script = "simple" /\ pc = "q99")
       ~> (/\ pc = "exit" /\ exit_status = 0 /\ Responded
           /\ Response.success \in BOOLEAN
           /\ Response.success <=> result # None
           /\ Response.success => "Synthesizing" = stages[Len(stages)])
  /\ [][(script = "simple" /\ pc \in {"m170", "exit"} /\ pc' # "launch")
          => (stages' = stages /\ UNCHANGED counters)]_vars

\* a query that passed through every stage has ended in Done
C16_Witness ==
  /\ script = "simple" /\ pc = "exit" /\ Responded /\ Response.success
  /\ stages = <<"ResolvingZone", "Fetching", "Extracting", "SelectingEvidence",
                "Synthesizing">>

(***************************************************************************)
(* C19: in the simple processor the completion service is never invoked    *)
(* with empty evidence; when the extraction called for a registered zone   *)
(* yields no text (None) or the empty string, the query ends in failure    *)
(* without a completion call.                                              *)
(***************************************************************************)
C19_NoEmptyEvidence ==
  script = "simple" =>
    /\ \A i \in 1..Len(prompt) :
         prompt[i].evidence # None /\ Len(prompt[i].evidence) > 0
    /\ (/\ pc \in {"m170", "exit"}
        /\ zone_code \in DOMAIN Simple_get_zone_pdf_urls
        /\ TotalGets = 1
        /\ full_text = None \/ full_text = <<>>)
         => /\ n_invoke = 0 /\ prompt = <<>>
            /\ result = None
            /\ pc = "exit" => SimpleFailed

\* the decoder returned pages without text and the query ended in failure
C19_Witness ==
  /\ script = "simple" /\ SimpleFailed
  /\ fetched = "ok" /\ n_load = 1 /\ failure = "EmptyText"
  /\ full_text = <<>>
  /\ n_invoke = 0

(***************************************************************************)
(* C20: the two processors' zone registries agree wherever they overlap:   *)
(* every zone code that is a key of both get_zone_pdf_urls mappings        *)
(* resolves to the same document URL in both, so that the registry of the  *)
(* processor that runs grounds a zone code in the same document as the     *)
(* registry of the other processor.                                        *)
(***************************************************************************)
C20_RegistriesAgree ==
  LET mine == IF script = "simple" THEN Simple_get_zone_pdf_urls
              ELSE Rag_get_zone_pdf_urls
      other == IF script = "simple" THEN Rag_get_zone_pdf_urls
               ELSE Simple_get_zone_pdf_urls
  IN  \A zc \in DOMAIN mine \cap DOMAIN other : mine[zc] = other[zc]

(***************************************************************************)
(* C18: the index cache of the retrieval processor holds an entry for a    *)
(* zone code only if that code is in the registry (and a build for it      *)
(* succeeded); a build that failed leaves no entry, so a call for a        *)
(* registered zone that has no entry attempts the fetch and the build      *)
(* (again): once such a call has ended, with the dependencies imported     *)
(* and, for a query, a credential, it has issued its fetch.                *)
(***************************************************************************)
C18_CacheInvariant ==
  /\ processor.vector_stores \subseteq DOMAIN Rag_get_zone_pdf_urls
  /\ \A t \in Threads :
       (/\ script \in {"rag", "rag_api"} /\ import_fail = 0
        /\ th[t].pc = "done"
        /\ \/ th[t].op = "create_vector_store"
           \/ th[t].op = "query_zone_planning_rules"
                /\ environ_key \notin {KeyUnset, ""}
        /\ th[t].zone_code \in DOMAIN Rag_get_zone_pdf_urls
        /\ th[t].zone_code \notin processor.vector_stores)
         => th[t].gets = 1

=============================================================================
